---- MODULE Spec2Model ----
(***************************************************************************)
(* Threshold key custody (splitkeys / recoverkeys / verifysplitkeys) and   *)
(* cross-chain stuck-funds recovery of bitgo-cli, as state machines.       *)
(*                                                                         *)
(*   SpecSplit    genSplitKey: seed -> shares -> encrypted shares          *)
(*   SpecRecover  handleRecoverKeys: password discovery and recombination  *)
(*   SpecRecoverFair  SpecRecover with a password prompt that is answered  *)
(*   SpecTx       CrossChainRecoveryTool pipeline of the recover commands  *)
(*   SpecRecovery SpecTx together with the SafeHD recovery handlers        *)
(*   SpecSplitKeys handleSplitKeys: prompts, validation, batch generation  *)
(*   SpecSend     handleSendToAddress / retryForUnlock: the OTP retry      *)
(***************************************************************************)
EXTENDS Integers, Sequences, FiniteSets, TLC

(***************************************************************************)
(* Bounds                                                                  *)
(***************************************************************************)
\* width of one secrets.js chunk (the library default is 8; 3 is its minimum)
Bits == 3
\* largest number of shares per key explored (the program allows 1..10)
MaxN == 3

(***************************************************************************)
(* secrets.js: GF(2^Bits) arithmetic through log/exp tables                *)
(***************************************************************************)
Size == 2 ^ Bits
Max == Size - 1

RECURSIVE Xor(_, _)
Xor(a, b) ==
  IF a = 0 THEN b
  ELSE IF b = 0 THEN a
  ELSE (((a % 2) + (b % 2)) % 2) + 2 * Xor(a \div 2, b \div 2)

\* defaults.primitivePolynomials[bits]
PrimitivePolynomial ==
  (3 :> 3 @@ 4 :> 3 @@ 5 :> 5 @@ 6 :> 3 @@ 7 :> 3 @@ 8 :> 29)[Bits]

\* the value x takes after one round of the init() loop
NextExp(x) ==
  IF 2 * x >= Size THEN Xor(2 * x, PrimitivePolynomial) % Size ELSE 2 * x

RECURSIVE ExpAt(_)
ExpAt(i) == IF i = 0 THEN 1 ELSE NextExp(ExpAt(i - 1))

\* config.exps
Exps == [i \in 0 .. Max |-> ExpAt(i)]

\* config.logs (logs[1] is overwritten by the last round, as in init())
Logs == [x \in 1 .. Max |-> CHOOSE i \in 0 .. Max :
           Exps[i] = x /\ \A j \in 0 .. Max : Exps[j] = x => j <= i]

\* horner(x, coeffs): coeffs[1] is the secret, coeffs[Len] the leading term
RECURSIVE HornerFrom(_, _, _, _)
HornerFrom(x, coeffs, i, fx) ==
  IF i = 0 THEN fx
  ELSE IF fx = 0 THEN HornerFrom(x, coeffs, i - 1, coeffs[i])
  ELSE HornerFrom(x, coeffs, i - 1,
                  Xor(Exps[(Logs[x] + Logs[fx]) % Max], coeffs[i]))

Horner(x, coeffs) == HornerFrom(x, coeffs, Len(coeffs), 0)

\* inner loop of lagrange(at, x, y) for term i; -1 when at = x[j]
RECURSIVE LagrangeProduct(_, _, _, _, _)
LagrangeProduct(at, x, i, j, product) ==
  IF j > Len(x) THEN product
  ELSE IF i = j THEN LagrangeProduct(at, x, i, j + 1, product)
  ELSE IF at = x[j] THEN -1
  ELSE LagrangeProduct(at, x, i, j + 1,
         (product + Logs[Xor(at, x[j])] - Logs[Xor(x[i], x[j])] + Max) % Max)

RECURSIVE LagrangeFrom(_, _, _, _, _)
LagrangeFrom(at, x, y, i, sum) ==
  IF i > Len(x) THEN sum
  ELSE IF y[i] = 0 THEN LagrangeFrom(at, x, y, i + 1, sum)
  ELSE LET product == LagrangeProduct(at, x, i, 1, Logs[y[i]])
       IN  LagrangeFrom(at, x, y, i + 1,
             IF product = -1 THEN sum ELSE Xor(sum, Exps[product]))

Lagrange(at, x, y) == LagrangeFrom(at, x, y, 1, 0)

(***************************************************************************)
(* Values: seed material, shares, ciphertexts, extended keys               *)
(***************************************************************************)
\* a seed as the hex string genKey returns (one chunk of it)
SeedHex(s) == [kind |-> "seed", id |-> 0, v |-> s]
\* a share as secrets.share formats it: bits, id, data
ShareStr(x, y) == [kind |-> "share", id |-> x, v |-> y]
\* the outcome of a call that throws
Throw == [kind |-> "throw", id |-> 0, v |-> 0]

\* the seed chunks explored: all bits clear, one bit set, all bits set
Seeds == {0, 1, Max}
\* the non-zero random coefficients secrets.js draws from its rng
Coeffs == 1 .. Max

\* secrets.share(secret, numShares, threshold) with the random
\* coefficients rnd (threshold - 1 of them) made explicit
Share(secret, numShares, threshold, rnd) ==
  [i \in 1 .. numShares |-> ShareStr(i, Horner(i, <<secret.v>> \o rnd))]

\* the shares of a sequence with a duplicate id dropped (first one kept)
RECURSIVE DedupShares(_, _)
DedupShares(shares, acc) ==
  IF shares = <<>> THEN acc
  ELSE IF \E k \in 1 .. Len(acc) : acc[k].id = Head(shares).id
       THEN DedupShares(Tail(shares), acc)
       ELSE DedupShares(Tail(shares), Append(acc, Head(shares)))

\* secrets.combine(shares)
Combine(shares) ==
  IF \E k \in 1 .. Len(shares) : shares[k].kind # "share" THEN Throw
  ELSE LET d == DedupShares(shares, <<>>)
           x == [k \in 1 .. Len(d) |-> d[k].id]
           y == [k \in 1 .. Len(d) |-> d[k].v]
       IN  SeedHex(Lagrange(0, x, y))

\* bitgo.encrypt({ password, input }) (sjcl.encrypt)
Encrypt(password, input) == [pw |-> password, pt |-> input]

\* sjcl.decrypt(password, ciphertext): throws unless the password is the
\* one the ciphertext was made with
Decrypt(password, ct) == IF ct.pw = password THEN ct.pt ELSE Throw

\* bitcoin.HDNode.fromSeedHex(seed): the key pair is a function of the
\* seed bytes alone, and different seed bytes give different keys
FromSeedHex(seed) == [xpub |-> <<"xpub", seed>>, xprv |-> <<"xprv", seed>>]

(***************************************************************************)
(* State                                                                   *)
(***************************************************************************)
VARIABLES
  \* genSplitKey
  params,        \* the UserInput object: n, m and password0 .. password(n-1)
  key,           \* <<what genKey returned>>, <<>> before the call
  result,        \* <<the record genSplitKey returned>>, <<>> before the call
  \* handleRecoverKeys
  keysFile,      \* the parsed input file: a sequence of SplitKeyRecords
  fileSeeds,     \* (history) the seed each record of the file was split from
  verifyonly,    \* args.verifyonly
  rpc,           \* position in handleRecoverKeys
  keysToRecover, \* the selected records
  passwords,     \* the bindings { shareIndex, password } found so far
  slot,          \* i of getPassword(i, n, shares)
  keysArg,       \* input.keys after split(',') and parseInt
  found,         \* found of the last getPassword call that tried a password
  inputPw,       \* input.password0 .. : what each password slot holds
  output,        \* <<the list printJSON printed>>, <<>> if nothing was
  rerror,        \* the error handleRecoverKeys failed with
  \* CrossChainRecoveryTool and the recover commands that drive it
  test,          \* args.test
  command,       \* the util command run
  faultyTxInfo,  \* the output addresses of the faulty transaction, as the explorer gave them
  outputAddresses, \* the addresses findUnspents asked the unspents of
  coins,         \* the types of this.sourceCoin and this.recoveryCoin
  wallets,       \* this.wallets: source and dest
  addressesDest, \* <<this.addresses.dest>>, <<>> while it is null
  unspents,      \* <<this.unspents>>, <<>> while it is undefined
  recoveryTx,    \* this.recoveryTx: the inputs and outputs added so far
  txInfo,        \* <<this.txInfo>>, <<>> while it is undefined
  halfSigned,    \* <<this.halfSignedRecoveryTx>>, <<>> while undefined
  savedFile,     \* <<the file saveToFile wrote>>, <<>> if none was written
  tpc,           \* the step the recover command runs next
  steps,         \* (history) the steps run so far, in order
  terror,        \* the error the recover command failed with
  lookups,       \* (history) the wallet lookups each setWallet made
  \* handleRecoverBCHFromSafeHD / handleRecoverBTGFromSafeHD
  hcoin,         \* the coin of the migrated wallet
  hpc,           \* position in the handler
  amount,        \* the amount of the recipient of the prebuilt transaction
  nIns,          \* transaction.ins.length
  inputIndex,    \* the loop variable
  sigs,          \* for each input signed so far: is its signature valid
  hops,          \* (history) the sign and verify calls made, in order
  verified,      \* (history) the inputs whose signature this program
                 \* has verified
  printed,       \* <<the half-signed transaction printed>>, <<>> if none
  submitted,     \* <<the transaction posted to /tx/send>>, <<>> if none
  herror,        \* the error the handler failed with
  \* handleSplitKeys
  sinput,        \* the UserInput: n, m and nkeys as given or typed
  spw,           \* password0, password1, ... as accepted so far
  spc,           \* position in the handler
  rejected,      \* (history) the last answer that was refused
  jsonFile,      \* <<the records written to prefix.json>>, <<>> if none
  csvFile,       \* <<the rows written to prefix.xpub.csv>>, <<>> if none
  \* handleSendToAddress, retryForUnlock, handleUnlock
  sendCmd,       \* which of the two runs
  otpGiven,      \* args.otp is set
  longLived,     \* the session is one of a long-lived access token
  sop,           \* the API operation at hand
  sphase,        \* position: attempt, unlock, retry, confirm, done, failed
  slog,          \* (history) the API calls and unlocks made, in order
  serror         \* the error the command failed with

splitVars == <<params, key, result>>
recVars == <<keysFile, fileSeeds, verifyonly, rpc, keysArg, keysToRecover, passwords,
             slot, found, inputPw, output, rerror>>
txVars == <<test, command, faultyTxInfo, outputAddresses, coins, wallets, addressesDest, unspents, recoveryTx, txInfo,
            halfSigned, savedFile, tpc, steps, terror, lookups>>
hdVars == <<hcoin, hpc, amount, nIns, inputIndex, sigs, hops, verified,
            printed, submitted, herror>>
skVars == <<sinput, spw, spc, rejected, jsonFile, csvFile>>
sendVars == <<sendCmd, otpGiven, longLived, sop, sphase, slog, serror>>
vars == <<splitVars, recVars, txVars, hdVars, skVars, sendVars>>

\* Passwords are numbered; 0 is a password no share was encrypted with.
Passwords == 1 .. MaxN
WrongPassword == 0

\* The password lists explored for one splitkeys run: all different, the
\* first two exchanged, and one password used for the first two shares.
PwDistinct == [i \in 1 .. MaxN |-> i]
PwSwapped == [i \in 1 .. MaxN |-> IF i = 1 THEN MaxN ELSE IF i = MaxN THEN 1 ELSE i]
PwRepeated == [i \in 1 .. MaxN |-> IF i = 1 THEN 1 ELSE i - 1]
PwLists == {PwDistinct, PwSwapped, PwRepeated}

\* the (m, n) handleSplitKeys lets through: n in 1..10, m = 1 when n = 1,
\* else 2 <= m <= n
ValidMN == {mn \in (1 .. MaxN) \X (1 .. MaxN) :
              IF mn[2] = 1 THEN mn[1] = 1 ELSE mn[1] >= 2 /\ mn[1] <= mn[2]}

(***************************************************************************)
(* genSplitKey                                                             *)
(***************************************************************************)
\* the mutant: every share encrypted with the password of the key's index
GenSplitKeyKeyIndex(p, k, rnd) ==
  LET shares == IF p.n = 1 THEN <<k.seed>> ELSE Share(k.seed, p.n, p.m, rnd)
  IN  [xpub |-> k.xpub, m |-> p.m, n |-> p.n,
       seedShares |-> [i \in 1 .. Len(shares) |->
                         Encrypt(p.password[1], shares[i])]]

\* the mutant: the single share of an n = 1 key is stored as it is
GenSplitKeyClearSingle(p, k, rnd) ==
  LET shares == IF p.n = 1 THEN <<k.seed>> ELSE Share(k.seed, p.n, p.m, rnd)
  IN  [xpub |-> k.xpub, m |-> p.m, n |-> p.n,
       seedShares |-> [i \in 1 .. Len(shares) |->
                         IF p.n = 1 THEN shares[i]
                         ELSE Encrypt(p.password[i], shares[i])]]

\* BGCL.prototype.genSplitKey(params): k is what genKey returned, rnd the
\* random coefficients secrets.share draws
GenSplitKey(p, k, rnd) ==
  LET shares == IF p.n = 1 THEN <<k.seed>> ELSE Share(k.seed, p.n, p.m, rnd)
  IN  [xpub |-> k.xpub, m |-> p.m, n |-> p.n,
       seedShares |-> [i \in 1 .. Len(shares) |->
                         Encrypt(p.password[i], shares[i])]]

\* BGCL.prototype.genKey with the random seed s
GenKey(s) ==
  [seed |-> SeedHex(s), xpub |-> FromSeedHex(SeedHex(s)).xpub,
   xprv |-> FromSeedHex(SeedHex(s)).xprv]

\* the seed handleRecoverKeys rebuilds from decrypted shares
Recombine(shares) ==
  IF \E k \in 1 .. Len(shares) : shares[k] = Throw THEN Throw
  ELSE IF Len(shares) = 1 THEN shares[1]
  ELSE Combine(shares)

\* no error
NoError == [kind |-> "none", index |-> -1]

IdleSplit ==
  /\ params = [n |-> 1, m |-> 1, password |-> <<1>>]
  /\ key = <<>>
  /\ result = <<>>

IdleRecover ==
  /\ keysFile = <<>>
  /\ fileSeeds = <<>>
  /\ verifyonly = FALSE
  /\ rpc = "idle"
  /\ keysToRecover = <<>>
  /\ passwords = <<>>
  /\ slot = 0
  /\ found = FALSE
  /\ keysArg = <<>>
  /\ inputPw = <<>>
  /\ output = <<>>
  /\ rerror = NoError

NoWallet == [set |-> FALSE, isV1 |-> FALSE]

IdleTx ==
  /\ test = FALSE
  /\ command = ""
  /\ faultyTxInfo = <<>>
  /\ outputAddresses = <<>>
  /\ coins = [source |-> "", recovery |-> ""]
  /\ wallets = [source |-> NoWallet, dest |-> NoWallet]
  /\ addressesDest = <<>>
  /\ unspents = <<>>
  /\ recoveryTx = [ins |-> <<>>, outs |-> <<>>]
  /\ txInfo = <<>>
  /\ halfSigned = <<>>
  /\ savedFile = <<>>
  /\ tpc = "idle"
  /\ steps = <<>>
  /\ terror = NoError
  /\ lookups = <<>>

IdleSafeHD ==
  /\ hcoin = ""
  /\ hpc = "idle"
  /\ amount = 0
  /\ nIns = 0
  /\ inputIndex = 0
  /\ sigs = <<>>
  /\ hops = <<>>
  /\ verified = {}
  /\ printed = <<>>
  /\ submitted = <<>>
  /\ herror = NoError

\* a value of the UserInput as given on the command line or typed: a
\* decimal integer v, the number v + 0.5, or text that is no number
Whole(v) == [kind |-> "int", v |-> v]
Half(v) == [kind |-> "frac", v |-> v]
Word == [kind |-> "text", v |-> 0]
\* a property of the UserInput that is not set
Unset == [kind |-> "unset", v |-> 0]
NoRejection == [name |-> "", value |-> Unset]

IdleSend ==
  /\ sendCmd = ""
  /\ otpGiven = FALSE
  /\ longLived = FALSE
  /\ sop = ""
  /\ sphase = "idle"
  /\ slog = <<>>
  /\ serror = ""

IdleSplitKeys ==
  /\ sinput = [n |-> Unset, m |-> Unset, nkeys |-> Unset]
  /\ spw = <<>>
  /\ spc = "idle"
  /\ rejected = NoRejection
  /\ jsonFile = <<>>
  /\ csvFile = <<>>

InitSplit ==
  /\ IdleSplitKeys
  /\ IdleSend
  /\ \E mn \in ValidMN : \E pw \in PwLists :
       params = [n |-> mn[2], m |-> mn[1],
                 password |-> SubSeq(pw, 1, mn[2])]
  /\ key = <<>>
  /\ result = <<>>
  /\ IdleRecover
  /\ IdleTx
  /\ IdleSafeHD

CallGenSplitKey ==
  /\ result = <<>>
  /\ \E s \in Seeds : \E rnd \in [1 .. params.m - 1 -> Coeffs] :
       /\ key' = <<GenKey(s)>>
       /\ result' = <<GenSplitKey(params, GenKey(s), rnd)>>
  /\ UNCHANGED <<params, recVars, txVars, hdVars, skVars, sendVars>>

NextSplit == CallGenSplitKey

SpecSplit == InitSplit /\ [][NextSplit]_vars

\* the orders in which k of the n share indices can be picked
Arrangements(n, k) ==
  {a \in [1 .. k -> 1 .. n] : \A i, j \in 1 .. k : a[i] = a[j] => i = j}

\* the shares of record r picked by a, each decrypted with its own password
DecryptOwn(p, r, a) ==
  [i \in 1 .. Len(a) |-> Decrypt(p.password[a[i]], r.seedShares[a[i]])]

\* C1: the shares genSplitKey produced, each decrypted with the password of
\* its own index, recombine to the seed for every choice of m shares (in
\* every order) and for all n shares.
SplitRoundTrip ==
  result # <<>> =>
    \A k \in {params.m, params.n} : \A a \in Arrangements(params.n, k) :
      Recombine(DecryptOwn(params, result[1], a)) = key[1].seed

\* a 2-of-3 split whose shares 1 and 2 (without share 0) give the seed back
SplitRoundTripWitness ==
  /\ result # <<>>
  /\ params.m = 2 /\ params.n = 3
  /\ params.password = <<1, 2, 3>>
  /\ Recombine(DecryptOwn(params, result[1], <<2, 3>>)) = key[1].seed
  /\ result[1].seedShares[2].pt.v # key[1].seed.v
  /\ result[1].seedShares[3].pt.v # key[1].seed.v

(***************************************************************************)
(* handleRecoverKeys (recoverkeys, verifysplitkeys)                        *)
(***************************************************************************)
\* The input files explored hold two records.  Each was made by genSplitKey
\* with its own (m, n) and password list (a file merged from two splitkeys
\* runs); the seeds and coefficients come from two-element sets.
RecSeeds == {1, Max - 1}
RecCoeffs == {1, Max}

\* a record of the batch file: what handleSplitKeys writes for a key
FileRecord(index, mn, pw, s, c) ==
  LET r == GenSplitKey([n |-> mn[2], m |-> mn[1],
                        password |-> SubSeq(pw, 1, mn[2])],
                       GenKey(s), [i \in 1 .. mn[1] - 1 |-> c])
  IN  [index |-> index, xpub |-> r.xpub, m |-> r.m, n |-> r.n,
       seedShares |-> r.seedShares]

\* a token of the comma-separated key list after parseInt
Num(v) == [nan |-> FALSE, v |-> v]
NaN == [nan |-> TRUE, v |-> 0]
KeyLists == {<<Num(0)>>, <<Num(1)>>, <<Num(1), Num(0)>>,
             <<Num(0), NaN, Num(0)>>, <<NaN>>, <<Num(2)>>, <<Num(-1), Num(0)>>}

\* _.uniq(indices).sort(): the different numbers of a list in ascending order
RECURSIVE SortedSet(_)
SortedSet(S) ==
  IF S = {} THEN <<>>
  ELSE LET lo == CHOOSE x \in S : \A y \in S : x <= y
       IN  <<lo>> \o SortedSet(S \ {lo})

ParseIndices(tokens) ==
  SortedSet({tokens[k].v : k \in {j \in 1 .. Len(tokens) : ~tokens[j].nan}})

\* keys.filter((key, index) => indices.indexOf(index) !== -1)
RECURSIVE FilterKeys(_, _, _)
FilterKeys(keys, indices, pos) ==
  IF pos > Len(keys) THEN <<>>
  ELSE (IF \E k \in 1 .. Len(indices) : indices[k] = pos - 1
        THEN <<keys[pos]>> ELSE <<>>) \o FilterKeys(keys, indices, pos + 1)

\* the shares.forEach of getPassword: the bindings after trying password
\* on every share, from share index shareIndex on
RECURSIVE TestPasswordFrom(_, _, _, _)
TestPasswordFrom(pws, password, shares, shareIndex) ==
  IF shareIndex >= Len(shares) THEN pws
  ELSE IF /\ Decrypt(password, shares[shareIndex + 1]) # Throw
          /\ ~\E k \in 1 .. Len(pws) : pws[k].shareIndex = shareIndex
       THEN TestPasswordFrom(
              Append(pws, [shareIndex |-> shareIndex, password |-> password]),
              password, shares, shareIndex + 1)
       ELSE TestPasswordFrom(pws, password, shares, shareIndex + 1)

\* the bindings after password was tried on the shares
TestPassword(pws, password, shares) ==
  TestPasswordFrom(pws, password, shares, 0)

\* sjcl.decrypt(p.password, key.seedShares[p.shareIndex]); an index the key
\* has no share for makes the call throw
DecryptShare(k, b) ==
  IF b.shareIndex + 1 <= Len(k.seedShares)
  THEN Decrypt(b.password, k.seedShares[b.shareIndex + 1])
  ELSE Throw

\* the mutant: the i-th password is used on the i-th share of the key
RecoveredSeedByPosition(k, pws) ==
  Recombine([i \in 1 .. Len(pws) |->
               IF i <= Len(k.seedShares)
               THEN Decrypt(pws[i].password, k.seedShares[i]) ELSE Throw])

\* the seed rebuilt for key k from the bindings pws
RecoveredSeed(k, pws) ==
  Recombine([i \in 1 .. Len(pws) |-> DecryptShare(k, pws[i])])

Undefined == <<>>

\* the mutant: the xpub comparison left out
RecoverKeyNoCheck(k, pws, vo) ==
  LET seed == RecoveredSeed(k, pws)
      extendedKey == FromSeedHex(seed)
  IN  IF seed = Throw
      THEN [err |-> [kind |-> "decrypt", index |-> -1],
            entry |-> [index |-> k.index, xpub |-> Undefined, xprv |-> Undefined]]
      ELSE [err |-> NoError,
            entry |-> [index |-> k.index, xpub |-> extendedKey.xpub,
                       xprv |-> IF vo THEN Undefined ELSE extendedKey.xprv]]

\* the mutant: the xprv is put into the entry in either mode
RecoverKeyWithXprv(k, pws, vo) ==
  LET seed == RecoveredSeed(k, pws)
      extendedKey == FromSeedHex(seed)
  IN  IF seed = Throw
      THEN [err |-> [kind |-> "decrypt", index |-> -1],
            entry |-> [index |-> k.index, xpub |-> Undefined, xprv |-> Undefined]]
      ELSE IF ~vo /\ extendedKey.xpub # k.xpub
      THEN [err |-> [kind |-> "xpubs don't match", index |-> k.index],
            entry |-> [index |-> k.index, xpub |-> Undefined, xprv |-> Undefined]]
      ELSE [err |-> NoError,
            entry |-> [index |-> k.index, xpub |-> extendedKey.xpub,
                       xprv |-> extendedKey.xprv]]

\* the body of keysToRecover.map in handleRecoverKeys for one key: the
\* entry it returns, or the error it throws
RecoverKey(k, pws, vo) ==
  LET seed == RecoveredSeed(k, pws)
      extendedKey == FromSeedHex(seed)
  IN  IF seed = Throw
      THEN [err |-> [kind |-> "decrypt", index |-> -1],
            entry |-> [index |-> k.index, xpub |-> Undefined, xprv |-> Undefined]]
      ELSE IF ~vo /\ extendedKey.xpub # k.xpub
      THEN [err |-> [kind |-> "xpubs don't match", index |-> k.index],
            entry |-> [index |-> k.index, xpub |-> Undefined, xprv |-> Undefined]]
      ELSE [err |-> NoError,
            entry |-> [index |-> k.index, xpub |-> extendedKey.xpub,
                       xprv |-> IF vo THEN Undefined ELSE extendedKey.xprv]]

\* the first error keysToRecover.map throws, NoError if it completes
RECURSIVE FirstError(_, _, _, _)
FirstError(keys, pws, vo, pos) ==
  IF pos > Len(keys) THEN NoError
  ELSE IF RecoverKey(keys[pos], pws, vo).err # NoError
       THEN RecoverKey(keys[pos], pws, vo).err
       ELSE FirstError(keys, pws, vo, pos + 1)

InitRecover ==
  /\ IdleSplitKeys
  /\ IdleSend
  /\ IdleSplit
  /\ IdleTx
  /\ IdleSafeHD
  /\ \E mn1, mn2 \in ValidMN : \E pw1, pw2 \in PwLists :
     \E s \in RecSeeds : \E c \in RecCoeffs :
     \E stored \in {<<s, Max - s>>, <<s, s>>, <<Max - s, Max - s>>} :
       /\ fileSeeds = <<s, Max - s>>
       /\ keysFile =
            <<[FileRecord(0, mn1, pw1, s, c)
                 EXCEPT !.xpub = GenKey(stored[1]).xpub],
              [FileRecord(1, mn2, pw2, Max - s, c)
                 EXCEPT !.xpub = GenKey(stored[2]).xpub]>>
  /\ verifyonly = FALSE
  /\ rpc = "command"
  /\ keysToRecover = <<>>
  /\ passwords = <<>>
  /\ slot = 0
  /\ found = FALSE
  /\ keysArg = <<>>
  /\ inputPw = <<>>
  /\ output = <<>>
  /\ rerror = NoError

\* runCommandHandler: verifysplitkeys sets args.verifyonly, recoverkeys
\* keeps what its -v option gave
RunCommandHandler ==
  /\ rpc = "command"
  /\ \E cmd \in {"recoverkeys", "verifysplitkeys"} : \E v \in BOOLEAN :
       verifyonly' = IF cmd = "verifysplitkeys" THEN TRUE ELSE v
  /\ rpc' = "keys"
  /\ UNCHANGED <<splitVars, skVars, sendVars, txVars, hdVars, keysFile, fileSeeds, keysArg, keysToRecover, passwords,
                 slot, found, inputPw, output, rerror>>

\* handleRecoverKeys, from reading the file to the first getPassword call
SelectKeys ==
  /\ rpc = "keys"
  /\ \E tokens \in KeyLists :
       LET indices == ParseIndices(tokens) IN
       /\ keysArg' = tokens
       /\ IF Len(indices) = 0
          THEN /\ rerror' = [kind |-> "no indices", index |-> -1]
               /\ rpc' = "failed"
               /\ UNCHANGED keysToRecover
          ELSE IF indices[1] < 0 \/ indices[Len(indices)] >= Len(keysFile)
          THEN /\ rerror' = [kind |-> "index out of range", index |-> -1]
               /\ rpc' = "failed"
               /\ UNCHANGED keysToRecover
          ELSE /\ keysToRecover' = FilterKeys(keysFile, indices, 1)
               /\ rpc' = "passwords"
               /\ UNCHANGED rerror
  /\ UNCHANGED <<splitVars, skVars, sendVars, txVars, hdVars, keysFile, fileSeeds, verifyonly, passwords, slot,
                 found, inputPw, output>>

\* the mutant: found is set by every share the password decrypts, bound
\* already or not
EnterPasswordFoundOnDecrypt ==
  /\ rpc = "passwords"
  /\ \E password \in Passwords \cup {WrongPassword} :
       LET firstKey == keysToRecover[1]
           bound == TestPassword(passwords, password, firstKey.seedShares)
           pushed == \E k \in 1 .. Len(firstKey.seedShares) :
                       Decrypt(password, firstKey.seedShares[k]) # Throw
       IN  /\ passwords' = bound
           /\ found' = pushed
           /\ slot' = IF pushed THEN slot + 1 ELSE slot
           /\ inputPw' = IF pushed THEN Append(inputPw, password) ELSE inputPw
           /\ rpc' = IF pushed /\ slot + 1 = firstKey.m
                     THEN "recombine" ELSE "passwords"
  /\ UNCHANGED <<splitVars, skVars, sendVars, txVars, hdVars, keysFile, fileSeeds, verifyonly, keysArg, keysToRecover,
                 output, rerror>>

\* getPassword(i, n, shares) with i < n: one password is read and tried
EnterPassword ==
  /\ rpc = "passwords"
  /\ \E password \in Passwords \cup {WrongPassword} :
       LET firstKey == keysToRecover[1]
           bound == TestPassword(passwords, password, firstKey.seedShares)
           pushed == bound # passwords
       IN  /\ passwords' = bound
           /\ found' = pushed
           /\ slot' = IF pushed THEN slot + 1 ELSE slot
           /\ inputPw' = IF pushed THEN Append(inputPw, password) ELSE inputPw
           /\ rpc' = IF pushed /\ slot + 1 = firstKey.m
                     THEN "recombine" ELSE "passwords"
  /\ UNCHANGED <<splitVars, skVars, sendVars, txVars, hdVars, keysFile, fileSeeds, verifyonly, keysArg, keysToRecover,
                 output, rerror>>

\* the keys of the list before the first one that throws
RECURSIVE RecoveredBefore(_, _, _, _)
RecoveredBefore(keys, pws, vo, pos) ==
  IF pos > Len(keys) \/ RecoverKey(keys[pos], pws, vo).err # NoError THEN <<>>
  ELSE <<RecoverKey(keys[pos], pws, vo).entry>>
         \o RecoveredBefore(keys, pws, vo, pos + 1)

\* the mutant: the keys rebuilt before the failing one are printed
RecombineKeysPartial ==
  /\ rpc = "recombine"
  /\ LET err == FirstError(keysToRecover, passwords, verifyonly, 1)
         done == RecoveredBefore(keysToRecover, passwords, verifyonly, 1) IN
       IF err # NoError
       THEN /\ rerror' = err
            /\ rpc' = "failed"
            /\ output' = IF done = <<>> THEN <<>> ELSE <<done>>
       ELSE /\ output' = <<done>>
            /\ rpc' = "done"
            /\ UNCHANGED rerror
  /\ UNCHANGED <<splitVars, skVars, sendVars, txVars, hdVars, keysFile, fileSeeds, verifyonly, keysArg, keysToRecover,
                 passwords, slot, found, inputPw>>

\* the last step of handleRecoverKeys: every selected key is rebuilt and
\* the list is printed, unless a key throws
RecombineKeys ==
  /\ rpc = "recombine"
  /\ LET err == FirstError(keysToRecover, passwords, verifyonly, 1) IN
       IF err # NoError
       THEN /\ rerror' = err
            /\ rpc' = "failed"
            /\ UNCHANGED output
       ELSE /\ output' = <<[i \in 1 .. Len(keysToRecover) |->
                             RecoverKey(keysToRecover[i], passwords,
                                        verifyonly).entry]>>
            /\ rpc' = "done"
            /\ UNCHANGED rerror
  /\ UNCHANGED <<splitVars, skVars, sendVars, txVars, hdVars, keysFile, fileSeeds, verifyonly, keysArg, keysToRecover,
                 passwords, slot, found, inputPw>>

NextRecover ==
  \/ RunCommandHandler
  \/ SelectKeys
  \/ EnterPassword
  \/ RecombineKeys

SpecRecover == InitRecover /\ [][NextRecover]_vars

\* handleRecoverKeys has run its last step
Recombined == rpc \in {"done", "failed"} /\ keysToRecover # <<>>

\* the xpub regenerated for key k differs from the one its record stores
XpubMismatch(k) ==
  /\ RecoveredSeed(k, passwords) # Throw
  /\ FromSeedHex(RecoveredSeed(k, passwords)).xpub # k.xpub

\* the shares of key k decrypt and give back the stored xpub
XpubMatch(k) ==
  /\ RecoveredSeed(k, passwords) # Throw
  /\ FromSeedHex(RecoveredSeed(k, passwords)).xpub = k.xpub

\* C2: in recoverkeys (xprv shown), a selected key whose regenerated xpub
\* differs from the stored one makes the command fail without printing
\* anything, and the error names that key when the keys before it passed.
IntegrityGate ==
  (Recombined /\ ~verifyonly) =>
    \A i \in 1 .. Len(keysToRecover) :
      XpubMismatch(keysToRecover[i]) =>
        /\ rpc = "failed"
        /\ output = <<>>
        /\ (\A j \in 1 .. i - 1 : XpubMatch(keysToRecover[j])) =>
             rerror = [kind |-> "xpubs don't match",
                       index |-> keysToRecover[i].index]

\* recoverkeys over both keys: key 0 passes, key 1 is stopped by the gate
IntegrityGateWitness ==
  /\ Recombined /\ ~verifyonly
  /\ Len(keysToRecover) = 2
  /\ XpubMatch(keysToRecover[1])
  /\ XpubMismatch(keysToRecover[2])
  /\ rerror = [kind |-> "xpubs don't match", index |-> 1]
  /\ output = <<>>

\* C3: verify-only mode lists a key only if its regenerated xpub equals the
\* xpub recorded for it in the file; otherwise the command fails.
VerifyOnlyChecksXpub ==
  (Recombined /\ verifyonly) =>
    \A i \in 1 .. Len(keysToRecover) :
      XpubMismatch(keysToRecover[i]) => rpc = "failed" /\ output = <<>>

\* the passwords of the shares of key k are pairwise different
DistinctPasswords(k) ==
  \A i, j \in 1 .. Len(k.seedShares) :
    k.seedShares[i].pw = k.seedShares[j].pw => i = j

\* the record of key k stores the xpub of the seed it was split from
Untampered(k) == k.xpub = GenKey(fileSeeds[k.index + 1]).xpub

\* C4: one key with pairwise different share passwords: whatever the order
\* in which m correct passwords were entered, recoverkeys succeeds and
\* prints the xprv of the seed the key was split from.
OrderIndependence ==
  (/\ Recombined /\ ~verifyonly
   /\ Len(keysToRecover) = 1
   /\ DistinctPasswords(keysToRecover[1])
   /\ Untampered(keysToRecover[1])) =>
     /\ rpc = "done"
     /\ Len(output[1]) = 1
     /\ output[1][1].xprv = GenKey(fileSeeds[keysToRecover[1].index + 1]).xprv

\* 2-of-3: the password of share 1 entered before the one of share 0
OrderIndependenceWitness ==
  /\ Recombined /\ ~verifyonly
  /\ Len(keysToRecover) = 1
  /\ keysToRecover[1].m = 2 /\ keysToRecover[1].n = 3
  /\ DistinctPasswords(keysToRecover[1])
  /\ Untampered(keysToRecover[1])
  /\ Len(passwords) = 2
  /\ passwords[1].shareIndex = 1 /\ passwords[2].shareIndex = 0
  /\ rpc = "done"
  /\ output[1][1].xprv = GenKey(fileSeeds[keysToRecover[1].index + 1]).xprv

\* C5: a selected key whose m is larger than the number of shares that
\* were decrypted for it is never emitted.
ThresholdEnforced ==
  output # <<>> =>
    \A i \in 1 .. Len(keysToRecover) :
      keysToRecover[i].m <= Len(passwords)

(***************************************************************************)
(* CrossChainRecoveryTool, driven by recoverbch / recoverbtc / recoverltc  *)
(***************************************************************************)
\* largest number of unspents the explorer answers with
MaxUnspents == 3

\* setFees
P2SH_INPUT_SIZE == 295
OUTPUT_SIZE == 34
TX_OVERHEAD_SIZE == 10

\* this.feeRates
FeeRates == [bch |-> 20, tbch |-> 20, btc |-> 80, tbtc |-> 80]

\* this.supportedCoins
SupportedCoins == {"btc", "bch", "btc-segwit"}

\* the sourceCoin and recoveryType each command constructs its tool with
ToolOptions ==
  [recoverbch |-> [sourceCoin |-> "bch", recoveryType |-> "btc"],
   recoverbtc |-> [sourceCoin |-> "btc", recoveryType |-> "bch"],
   recoverltc |-> [sourceCoin |-> "ltc", recoveryType |-> "btc"]]

\* the addresses wallet.addresses({}) lists for the recovery wallet, and an
\* address of that wallet the list does not hold
DestAddresses == {"known"}
Addresses == DestAddresses \cup {"unlisted"}

\* unspent values (satoshis): the fee of a one-input bch transaction, less,
\* and more than every fee explored
Values == {1000, 6780, 500000}

Unspents == [address : Addresses, value : Values, witnessScript : BOOLEAN]

RECURSIVE SeqsUpTo(_, _)
SeqsUpTo(S, n) ==
  IF n = 0 THEN {<<>>}
  ELSE SeqsUpTo(S, n - 1) \cup
       {Append(q, x) : q \in {r \in SeqsUpTo(S, n - 1) : Len(r) = n - 1}, x \in S}

UnspentLists == SeqsUpTo(Unspents, MaxUnspents)

Failed(kind) == [kind |-> kind, index |-> -1]

\* coinType.endsWith('btc')
EndsWithBtc(coinType) == coinType \in {"btc", "tbtc"}

\* the requests setWallet makes: the v2 lookup, then the v1 lookup when the
\* v2 one left no wallet and the coin type ends with 'btc'
LookupCalls(coinType, v2, v1) ==
  <<[api |-> "v2", answer |-> v2]>> \o
  (IF v2 \in {"404", "400"} /\ EndsWithBtc(coinType)
   THEN <<[api |-> "v1", answer |-> v1]>> ELSE <<>>)

\* the mutant: every failure of the v2 lookup is swallowed
LookupWalletAnyFailure(coinType, v2, v1) ==
  IF v2 = "ok"
  THEN [err |-> NoError, wallet |-> [set |-> TRUE, isV1 |-> FALSE],
        calls |-> <<[api |-> "v2", answer |-> v2]>>]
  ELSE IF EndsWithBtc(coinType) /\ v1 = "ok"
  THEN [err |-> NoError, wallet |-> [set |-> TRUE, isV1 |-> TRUE],
        calls |-> <<[api |-> "v2", answer |-> v2], [api |-> "v1", answer |-> v1]>>]
  ELSE [err |-> Failed("Cannot find wallet"), wallet |-> NoWallet,
        calls |-> <<[api |-> "v2", answer |-> v2]>>]

\* setWallet up to "if (!wallet) throw": v2 and v1 are how the lookups of
\* the current and the legacy API answer ("ok" or an HTTP status)
LookupWallet(coinType, v2, v1) ==
  LET calls == LookupCalls(coinType, v2, v1) IN
  IF v2 = "ok"
  THEN [err |-> NoError, wallet |-> [set |-> TRUE, isV1 |-> FALSE],
        calls |-> calls]
  ELSE IF v2 \notin {"404", "400"}
  THEN [err |-> Failed("api error"), wallet |-> NoWallet, calls |-> calls]
  ELSE IF EndsWithBtc(coinType) /\ v1 = "ok"
  THEN [err |-> NoError, wallet |-> [set |-> TRUE, isV1 |-> TRUE],
        calls |-> calls]
  ELSE IF EndsWithBtc(coinType) /\ v1 # "404"
  THEN [err |-> Failed("api error"), wallet |-> NoWallet, calls |-> calls]
  ELSE [err |-> Failed("Cannot find wallet"), wallet |-> NoWallet,
        calls |-> calls]

\* the for loop of buildInputs from position pos on: how it ends ("done",
\* "return" at an address the wallet does not list, "throw" at a witness
\* script), with the inputs of the transaction and the txInfo at that point
RECURSIVE BuildInputsFrom(_, _, _, _, _, _, _)
BuildInputsFrom(us, pos, noSegwit, dest, isV1, ins, info) ==
  IF pos > Len(us) THEN [exit |-> "done", ins |-> ins, info |-> info]
  ELSE IF us[pos].witnessScript /\ noSegwit
  THEN [exit |-> "throw", ins |-> ins, info |-> info]
  ELSE IF us[pos].address \notin dest
  THEN [exit |-> "return", ins |-> ins, info |-> info]
  ELSE BuildInputsFrom(us, pos + 1, noSegwit, dest, isV1,
         Append(ins, us[pos]),
         [info EXCEPT !.inputs = Append(@, [unspent |-> us[pos], v1 |-> isV1]),
                      !.inputAmount = @ + us[pos].value])

\* the txInfo buildInputs starts from
EmptyTxInfo ==
  [inputAmount |-> 0, outputAmount |-> 0, spendAmount |-> 0, inputs |-> <<>>,
   outputs |-> <<>>, externalOutputs |-> <<>>, minerFee |-> 0]

\* the mutant: the transaction overhead is left out of the size
RecoveryFeeNoOverhead(sourceType, numInputs) ==
  FeeRates[sourceType] * (P2SH_INPUT_SIZE * numInputs + OUTPUT_SIZE)

\* setFees: the fee of a transaction with that many inputs
RecoveryFee(sourceType, numInputs) ==
  FeeRates[sourceType] * (P2SH_INPUT_SIZE * numInputs + OUTPUT_SIZE + TX_OVERHEAD_SIZE)

\* setFees() on a tool whose txInfo is info: the value it returns and the
\* txInfo it leaves
SetFeesCall(info, sourceType, tx) ==
  LET recoveryFee == RecoveryFee(sourceType, Len(tx.ins))
  IN  [returned |-> recoveryFee, txInfo |-> [info EXCEPT !.minerFee = recoveryFee]]

\* a || b of JavaScript on numbers, an absent argument being 0
OrElse(a, b) == IF a # 0 THEN a ELSE b

\* the mutant: the whole input amount is sent, the fee forgotten
BuildOutputsNoFee(tx, info, recoveryAddress, outputAmountArg, recoveryFeeArg) ==
  LET outputAmount == OrElse(outputAmountArg, info.inputAmount)
      outputData == [address |-> recoveryAddress, value |-> outputAmount]
      set == [info EXCEPT !.outputAmount = outputAmount,
                          !.spendAmount = outputAmount]
  IN  IF outputAmount <= 0
      THEN [err |-> Failed("cannot pay its own fees"), tx |-> tx, info |-> set]
      ELSE [err |-> NoError,
            tx |-> [tx EXCEPT !.outs = Append(@, outputData)],
            info |-> [set EXCEPT !.outputs = Append(@, outputData),
                                 !.externalOutputs = Append(@, outputData)]]

\* the mutant: an output of zero is let through
BuildOutputsZero(tx, info, recoveryAddress, outputAmountArg, recoveryFeeArg) ==
  LET outputAmount == OrElse(outputAmountArg,
                        info.inputAmount - OrElse(recoveryFeeArg, info.minerFee))
      outputData == [address |-> recoveryAddress, value |-> outputAmount]
      set == [info EXCEPT !.outputAmount = outputAmount,
                          !.spendAmount = outputAmount]
  IN  IF outputAmount < 0
      THEN [err |-> Failed("cannot pay its own fees"), tx |-> tx, info |-> set]
      ELSE [err |-> NoError,
            tx |-> [tx EXCEPT !.outs = Append(@, outputData)],
            info |-> [set EXCEPT !.outputs = Append(@, outputData),
                                 !.externalOutputs = Append(@, outputData)]]

\* buildOutputs(recoveryAddress, outputAmount, recoveryFee) on a tool whose
\* txInfo is set: the error thrown, the transaction and the txInfo after it
BuildOutputs(tx, info, recoveryAddress, outputAmountArg, recoveryFeeArg) ==
  LET outputAmount == OrElse(outputAmountArg,
                        info.inputAmount - OrElse(recoveryFeeArg, info.minerFee))
      outputData == [address |-> recoveryAddress, value |-> outputAmount]
      set == [info EXCEPT !.outputAmount = outputAmount,
                          !.spendAmount = outputAmount]
  IN  IF outputAmount <= 0
      THEN [err |-> Failed("cannot pay its own fees"), tx |-> tx, info |-> set]
      ELSE [err |-> NoError,
            tx |-> [tx EXCEPT !.outs = Append(@, outputData)],
            info |-> [set EXCEPT !.outputs = Append(@, outputData),
                                 !.externalOutputs = Append(@, outputData)]]

InitTx ==
  /\ IdleSplitKeys
  /\ IdleSend
  /\ IdleSplit
  /\ IdleRecover
  /\ IdleSafeHD
  /\ test \in BOOLEAN
  /\ command \in DOMAIN ToolOptions
  /\ faultyTxInfo = <<>>
  /\ outputAddresses = <<>>
  /\ coins = [source |-> "", recovery |-> ""]
  /\ wallets = [source |-> NoWallet, dest |-> NoWallet]
  /\ addressesDest = <<>>
  /\ unspents = <<>>
  /\ recoveryTx = [ins |-> <<>>, outs |-> <<>>]
  /\ txInfo = <<>>
  /\ halfSigned = <<>>
  /\ savedFile = <<>>
  /\ tpc = "construct"
  /\ steps = <<>>
  /\ terror = NoError
  /\ lookups = <<>>

\* a step failed: the command stops with the error
Fail(step, err) ==
  /\ tpc' = "failed"
  /\ terror' = err
  /\ steps' = Append(steps, step)

\* a step completed
Go(step, next) ==
  /\ tpc' = next
  /\ terror' = terror
  /\ steps' = Append(steps, step)

\* new RecoveryTool({ sourceCoin, recoveryType, test }) in the handler of
\* one of the three commands
Construct ==
  /\ tpc = "construct"
  /\ LET opts == ToolOptions[command]
         prefix == IF test THEN "t" ELSE "" IN
       IF opts.sourceCoin \notin SupportedCoins
       THEN /\ Fail("construct", Failed("Please set a valid source coin"))
            /\ UNCHANGED coins
       ELSE IF opts.recoveryType \notin SupportedCoins
       THEN /\ Fail("construct", Failed("Please set a valid recovery type"))
            /\ UNCHANGED coins
       ELSE /\ Go("construct", "setWallet source")
            /\ coins' = [source |-> prefix \o opts.sourceCoin,
                         recovery |-> prefix \o opts.recoveryType]
  /\ UNCHANGED <<splitVars, skVars, sendVars, recVars, hdVars, test, command, faultyTxInfo, outputAddresses, lookups, wallets, addressesDest, unspents,
                 recoveryTx, txInfo, halfSigned, savedFile>>

\* setWallet(this.sourceCoin.type, sourceWallet)
SetWalletSource ==
  /\ tpc = "setWallet source"
  /\ \E v2 \in {"ok", "404", "400", "500"} : \E v1 \in {"ok", "404", "500"} :
     \E listed \in BOOLEAN :
       LET looked == LookupWallet(coins.source, v2, v1) IN
       /\ lookups' = Append(lookups, [coin |-> coins.source,
                                      calls |-> looked.calls])
       /\ IF looked.err # NoError
          THEN /\ Fail("setWallet source", looked.err)
               /\ UNCHANGED wallets
          ELSE /\ wallets' = [wallets EXCEPT !.source = looked.wallet]
               /\ IF listed THEN Go("setWallet source", "setWallet dest")
                  ELSE Fail("setWallet source", Failed("api error"))
  /\ UNCHANGED <<splitVars, skVars, sendVars, recVars, hdVars, test, command, faultyTxInfo, outputAddresses, coins, addressesDest, unspents,
                 recoveryTx, txInfo, halfSigned, savedFile>>

\* setWallet(this.recoveryCoin.type, recoveryWallet)
SetWalletDest ==
  /\ tpc = "setWallet dest"
  /\ \E v2 \in {"ok", "404", "400", "500"} : \E v1 \in {"ok", "404", "500"} :
     \E listed \in BOOLEAN :
       LET looked == LookupWallet(coins.recovery, v2, v1) IN
       /\ lookups' = Append(lookups, [coin |-> coins.recovery,
                                      calls |-> looked.calls])
       /\ IF looked.err # NoError
          THEN /\ Fail("setWallet dest", looked.err)
               /\ UNCHANGED <<wallets, addressesDest>>
          ELSE /\ wallets' = [wallets EXCEPT !.dest = looked.wallet]
               /\ IF listed
                  THEN /\ Go("setWallet dest", "findUnspents")
                       /\ addressesDest' = <<DestAddresses>>
                  ELSE /\ Fail("setWallet dest", Failed("api error"))
                       /\ UNCHANGED addressesDest
  /\ UNCHANGED <<splitVars, skVars, sendVars, recVars, hdVars, test, command, faultyTxInfo, outputAddresses, coins, unspents, recoveryTx, txInfo,
                 halfSigned, savedFile>>

\* the output addresses of the faulty transactions explored
TxOutputLists ==
  {<<"unlisted">>, <<"unlisted", "known">>, <<"known", "unlisted", "known">>}

\* the mutant: the output addresses are not filtered
AllOutputAddresses(outputs, dest) == outputs

\* faultyTxInfo.outputs.map(address).filter(address found in addresses.dest)
OutputAddresses(outputs, dest) ==
  LET Listed(address) == address \in dest IN SelectSeq(outputs, Listed)

\* findUnspents(faultyTxId): the explorer answers both requests, or one of
\* them fails; what it answers is taken as it comes
FindUnspents ==
  /\ tpc = "findUnspents"
  /\ \/ /\ Fail("findUnspents", Failed("explorer error"))
        /\ UNCHANGED <<faultyTxInfo, outputAddresses, unspents>>
     \/ \E outputs \in TxOutputLists :
          /\ faultyTxInfo' = <<outputs>>
          /\ outputAddresses' = <<OutputAddresses(outputs, addressesDest[1])>>
          /\ \/ /\ Fail("findUnspents", Failed("explorer error"))
                /\ UNCHANGED unspents
             \/ \E us \in UnspentLists :
                  /\ unspents' = <<us>>
                  /\ Go("findUnspents", "buildInputs")
  /\ UNCHANGED <<splitVars, skVars, sendVars, recVars, hdVars, test, command, lookups, coins, wallets, addressesDest,
                 recoveryTx, txInfo, halfSigned, savedFile>>

\* the mutant: an empty list of unspents is refused by buildInputs
BuildInputsNeedsUnspents ==
  /\ tpc = "buildInputs"
  /\ LET noSegwit == coins.recovery = "btc" /\ coins.source = "bch"
         r == BuildInputsFrom(unspents[1], 1, noSegwit, addressesDest[1],
                              wallets.dest.isV1, recoveryTx.ins, EmptyTxInfo)
     IN  /\ recoveryTx' = [recoveryTx EXCEPT !.ins = r.ins]
         /\ IF unspents[1] = <<>>
            THEN /\ Fail("buildInputs", Failed("Could not find unspents"))
                 /\ UNCHANGED txInfo
            ELSE IF r.exit = "throw"
            THEN /\ Fail("buildInputs", Failed("Segwit address"))
                 /\ UNCHANGED txInfo
            ELSE IF r.exit = "return"
            THEN /\ Go("buildInputs", "setFees")
                 /\ UNCHANGED txInfo
            ELSE /\ Go("buildInputs", "setFees")
                 /\ txInfo' = <<r.info>>
  /\ UNCHANGED <<splitVars, skVars, sendVars, recVars, hdVars, test, command, faultyTxInfo, outputAddresses, lookups, coins, wallets, addressesDest,
                 unspents, halfSigned, savedFile>>

\* buildInputs(): an early return leaves this.txInfo as it was, and
\* buildTransaction goes on to setFees
BuildInputs ==
  /\ tpc = "buildInputs"
  /\ LET noSegwit == coins.recovery = "btc" /\ coins.source = "bch"
         r == BuildInputsFrom(unspents[1], 1, noSegwit, addressesDest[1],
                              wallets.dest.isV1, recoveryTx.ins, EmptyTxInfo)
     IN  /\ recoveryTx' = [recoveryTx EXCEPT !.ins = r.ins]
         /\ IF r.exit = "throw"
            THEN /\ Fail("buildInputs", Failed("Segwit address"))
                 /\ UNCHANGED txInfo
            ELSE IF r.exit = "return"
            THEN /\ Go("buildInputs", "setFees")
                 /\ UNCHANGED txInfo
            ELSE /\ Go("buildInputs", "setFees")
                 /\ txInfo' = <<r.info>>
  /\ UNCHANGED <<splitVars, skVars, sendVars, recVars, hdVars, test, command, faultyTxInfo, outputAddresses, lookups, coins, wallets, addressesDest,
                 unspents, halfSigned, savedFile>>

\* setFees(): this.txInfo.minerFee is assigned, which throws a TypeError
\* while this.txInfo is undefined
SetFees ==
  /\ tpc = "setFees"
  /\ IF txInfo = <<>>
     THEN /\ Fail("setFees", Failed("TypeError"))
          /\ UNCHANGED txInfo
     ELSE /\ Go("setFees", "buildOutputs")
          /\ txInfo' = <<SetFeesCall(txInfo[1], coins.source, recoveryTx).txInfo>>
  /\ UNCHANGED <<splitVars, skVars, sendVars, recVars, hdVars, test, command, faultyTxInfo, outputAddresses, lookups, coins, wallets, addressesDest,
                 unspents, recoveryTx, halfSigned, savedFile>>

\* buildOutputs(recoveryAddress), as buildTransaction calls it: without an
\* output amount and without a fee
CallBuildOutputs ==
  /\ tpc = "buildOutputs"
  /\ LET r == BuildOutputs(recoveryTx, txInfo[1], "recoveryAddress", 0, 0) IN
       /\ txInfo' = <<r.info>>
       /\ recoveryTx' = r.tx
       /\ IF r.err # NoError THEN Fail("buildOutputs", r.err)
          ELSE Go("buildOutputs", "signTransaction")
  /\ UNCHANGED <<splitVars, skVars, sendVars, recVars, hdVars, test, command, faultyTxInfo, outputAddresses, lookups, coins, wallets, addressesDest,
                 unspents, halfSigned, savedFile>>

\* getKeys(passphrase): the error it throws, or the prv of what it returns
\* (absent for a v1 wallet, whose keys come back as { keychain }, and
\* when the wallet has no encrypted user keychain)
GetKeys(isV1, keychain, decrypts) ==
  IF keychain = "error" THEN [err |-> Failed("api error"), prv |-> FALSE]
  ELSE IF isV1 /\ keychain = "404"
  THEN [err |-> Failed("V1 wallets need a user keychain"), prv |-> FALSE]
  ELSE IF keychain = "ok" /\ ~decrypts
  THEN [err |-> Failed("Error reading private key"), prv |-> FALSE]
  ELSE [err |-> NoError, prv |-> ~isV1 /\ keychain = "ok"]

\* signTransaction({ passphrase }) after the passphrase prompt: the key is
\* resolved by getKeys and the transaction handed to
\* this.sourceCoin.signTransaction, which returns or throws
SignTransaction ==
  /\ tpc = "signTransaction"
  /\ \E keychain \in {"ok", "404", "error"} : \E decrypts, signs \in BOOLEAN :
       LET keys == GetKeys(wallets.dest.isV1, keychain, decrypts) IN
       IF keys.err # NoError
       THEN /\ Fail("signTransaction", keys.err)
            /\ UNCHANGED halfSigned
       ELSE IF ~signs
       THEN /\ Fail("signTransaction", Failed("signing error"))
            /\ UNCHANGED halfSigned
       ELSE /\ Go("signTransaction", "saveToFile")
            /\ halfSigned' = <<[tx |-> recoveryTx, prv |-> keys.prv]>>
  /\ UNCHANGED <<splitVars, skVars, sendVars, recVars, hdVars, test, command, faultyTxInfo, outputAddresses, lookups, coins, wallets, addressesDest,
                 unspents, recoveryTx, txInfo, savedFile>>

\* the mutant: the file is written when the run ends, however it ended
SaveToFileAlways ==
  /\ tpc \in {"saveToFile", "failed"}
  /\ savedFile = <<>>
  /\ savedFile' = <<[version |-> IF wallets.dest.isV1 THEN 1 ELSE 2,
                     txHex |-> recoveryTx, txInfo |-> txInfo]>>
  /\ tpc' = "done"
  /\ UNCHANGED <<splitVars, skVars, sendVars, recVars, hdVars, test, command, faultyTxInfo, outputAddresses, lookups, coins, wallets, addressesDest,
                 unspents, recoveryTx, txInfo, halfSigned, steps, terror>>

\* saveToFile()
SaveToFile ==
  /\ tpc = "saveToFile"
  /\ savedFile' = <<[version |-> IF wallets.dest.isV1 THEN 1 ELSE 2,
                     txHex |-> halfSigned[1].tx, txInfo |-> txInfo[1]]>>
  /\ Go("saveToFile", "done")
  /\ UNCHANGED <<splitVars, skVars, sendVars, recVars, hdVars, test, command, faultyTxInfo, outputAddresses, lookups, coins, wallets, addressesDest,
                 unspents, recoveryTx, txInfo, halfSigned>>

NextTx ==
  \/ Construct
  \/ SetWalletSource
  \/ SetWalletDest
  \/ FindUnspents
  \/ BuildInputs
  \/ SetFees
  \/ CallBuildOutputs
  \/ SignTransaction
  \/ SaveToFile

SpecTx == InitTx /\ [][NextTx]_vars

\* step has been run
Ran(step) == \E k \in 1 .. Len(steps) : steps[k] = step

RECURSIVE SumValues(_)
SumValues(q) == IF q = <<>> THEN 0 ELSE Head(q).value + SumValues(Tail(q))

\* buildOutputs has run and did not throw
BuildOutputsSucceeded ==
  Ran("buildOutputs") /\ terror.kind # "cannot pay its own fees"

\* C6: once buildOutputs has succeeded, inputAmount = outputAmount +
\* minerFee, inputAmount being the sum of the values of the inputs of the
\* transaction and outputAmount the value of its single output.
Conservation ==
  BuildOutputsSucceeded =>
    /\ txInfo[1].inputAmount = txInfo[1].outputAmount + txInfo[1].minerFee
    /\ txInfo[1].inputAmount = SumValues(recoveryTx.ins)
    /\ Len(recoveryTx.outs) = 1
    /\ txInfo[1].outputAmount = recoveryTx.outs[1].value

\* a two-input transaction with a fee and a positive output
ConservationWitness ==
  /\ BuildOutputsSucceeded
  /\ Len(recoveryTx.ins) = 2
  /\ txInfo[1].minerFee > 0
  /\ txInfo[1].outputAmount > 0
  /\ txInfo[1].inputAmount = txInfo[1].outputAmount + txInfo[1].minerFee

\* the band the earlier Litecoin recovery command enforces on a fee
MinSaneFee == 10000
MaxSaneFee == 10000000

\* C7: a recovery transaction whose miner fee is outside the sane band is
\* never given its output, signed or saved.
FeeInSaneBand ==
  (recoveryTx.outs # <<>> \/ halfSigned # <<>> \/ savedFile # <<>>) =>
    /\ txInfo[1].minerFee >= MinSaneFee
    /\ txInfo[1].minerFee <= MaxSaneFee

\* C8: when inputAmount minus the miner fee is zero or negative,
\* buildOutputs aborts with the 'cannot pay its own fees' error, the
\* transaction gets no output and is neither signed nor saved.
NonPositiveOutputAborts ==
  (Ran("buildOutputs") /\ txInfo[1].inputAmount - txInfo[1].minerFee <= 0) =>
    /\ tpc = "failed"
    /\ terror = Failed("cannot pay its own fees")
    /\ recoveryTx.outs = <<>>
    /\ txInfo[1].outputs = <<>>
    /\ halfSigned = <<>>
    /\ savedFile = <<>>

\* an input that pays exactly the fee: the output would be zero
NonPositiveOutputWitness ==
  /\ Ran("buildOutputs")
  /\ Len(recoveryTx.ins) = 1
  /\ txInfo[1].inputAmount = txInfo[1].minerFee
  /\ terror = Failed("cannot pay its own fees")
  /\ recoveryTx.outs = <<>>

\* the unspents of q whose address the recovery wallet lists
RECURSIVE Listed(_)
Listed(q) ==
  IF q = <<>> THEN <<>>
  ELSE (IF Head(q).address \in DestAddresses THEN <<Head(q)>> ELSE <<>>)
       \o Listed(Tail(q))

\* C10: buildInputs skips an unspent whose address the recovery wallet does
\* not list and goes on: when it has run without the segwit error, every
\* other unspent is an input of the transaction and counted in
\* inputAmount, and this.txInfo is set.
UnlistedSkipped ==
  (Ran("buildInputs") /\ terror.kind # "Segwit address") =>
    /\ recoveryTx.ins = Listed(unspents[1])
    /\ txInfo # <<>>
    /\ txInfo[1].inputAmount = SumValues(Listed(unspents[1]))

(***************************************************************************)
(* handleRecoverBCHFromSafeHD and handleRecoverBTGFromSafeHD               *)
(***************************************************************************)
\* largest number of inputs of the prebuilt transaction
MaxInputs == 3

\* feeToPay = 0.005 * 1e8
FeeToPay == 500000

\* spendable balances of the migrated wallet (satoshis)
Balances == {100000, 1000000, 2000000}

\* Math.floor(migratedWallet.spendableBalance() * 0.999) - feeToPay
SafeHDAmount(balance) == (balance * 999) \div 1000 - FeeToPay

InitSafeHD ==
  /\ IdleSplitKeys
  /\ IdleSend
  /\ IdleSplit
  /\ IdleRecover
  /\ IdleTx
  /\ hcoin \in {"bch", "btg"}
  /\ hpc = "prepare"
  /\ amount = 0
  /\ nIns = 0
  /\ inputIndex = 0
  /\ sigs = <<>>
  /\ hops = <<>>
  /\ verified = {}
  /\ printed = <<>>
  /\ submitted = <<>>
  /\ herror = NoError

HFail(kind, index) ==
  /\ hpc' = "failed"
  /\ herror' = [kind |-> kind, index |-> index]

\* the handler up to the signing loop: the wallet, the destination, the
\* migrated wallet, the prebuilt transaction and the signing keychain
Prepare ==
  /\ hpc = "prepare"
  /\ \/ /\ \E kind \in {"Not logged in", "No current wallet",
                        "Invalid destination address", "api error",
                        "TypeError", "keychain error",
                        "length of unspents array"} : HFail(kind, -1)
        /\ UNCHANGED <<amount, nIns>>
     \/ /\ \E balance \in Balances : amount' = SafeHDAmount(balance)
        /\ nIns' \in 0 .. MaxInputs
        /\ hpc' = "sign"
        /\ UNCHANGED herror
  /\ UNCHANGED <<splitVars, skVars, sendVars, recVars, txVars, hcoin, inputIndex, sigs, hops,
                 verified, printed, submitted>>

\* txb.sign(inputIndex, ...) and buildIncomplete(): it throws, or the
\* input now carries a signature, which is valid or not
SignInput ==
  /\ hpc = "sign"
  /\ inputIndex < nIns
  /\ hops' = Append(hops, <<"sign", inputIndex>>)
  /\ \/ /\ HFail("Failed to sign input", inputIndex)
        /\ UNCHANGED sigs
     \/ /\ \E valid \in BOOLEAN : sigs' = Append(sigs, valid)
        /\ hpc' = "verify"
        /\ UNCHANGED herror
  /\ UNCHANGED <<splitVars, skVars, sendVars, recVars, txVars, hcoin, amount, nIns, inputIndex,
                 verified, printed, submitted>>

\* the mutant: a failed verification is only logged
VerifyInputLogOnly ==
  /\ hpc = "verify"
  /\ hops' = Append(hops, <<"verify", inputIndex>>)
  /\ verified' = IF sigs[inputIndex + 1] THEN verified \cup {inputIndex}
                 ELSE verified
  /\ inputIndex' = inputIndex + 1
  /\ hpc' = "sign"
  /\ UNCHANGED <<splitVars, skVars, sendVars, recVars, txVars, hcoin, amount, nIns, sigs,
                 printed, submitted, herror>>

\* verifySignature(transaction, inputIndex, value) and the check of its
\* result
VerifyInput ==
  /\ hpc = "verify"
  /\ hops' = Append(hops, <<"verify", inputIndex>>)
  /\ IF sigs[inputIndex + 1]
     THEN /\ verified' = verified \cup {inputIndex}
          /\ inputIndex' = inputIndex + 1
          /\ hpc' = "sign"
          /\ UNCHANGED herror
     ELSE /\ HFail("Could not verify signature", inputIndex)
          /\ UNCHANGED <<verified, inputIndex>>
  /\ UNCHANGED <<splitVars, skVars, sendVars, recVars, txVars, hcoin, amount, nIns, sigs,
                 printed, submitted>>

\* after the loop: the half-signed transaction is built and printed
PrintHalfSigned ==
  /\ hpc = "sign"
  /\ inputIndex = nIns
  /\ printed' = <<[nIns |-> nIns, sigs |-> sigs]>>
  /\ hpc' = "unlock"
  /\ UNCHANGED <<splitVars, skVars, sendVars, recVars, txVars, hcoin, amount, nIns, inputIndex,
                 sigs, hops, verified, submitted, herror>>

\* handleUnlock()
Unlock ==
  /\ hpc = "unlock"
  /\ \/ HFail("unlock failed", -1)
     \/ hpc' = "send" /\ UNCHANGED herror
  /\ UNCHANGED <<splitVars, skVars, sendVars, recVars, txVars, hcoin, amount, nIns, inputIndex,
                 sigs, hops, verified, printed, submitted>>

\* the post of the half-signed transaction to /tx/send
Send ==
  /\ hpc = "send"
  /\ submitted' = printed
  /\ \/ HFail("api error", -1)
     \/ hpc' = "done" /\ UNCHANGED herror
  /\ UNCHANGED <<splitVars, skVars, sendVars, recVars, txVars, hcoin, amount, nIns, inputIndex,
                 sigs, hops, verified, printed>>

NextSafeHD ==
  \/ Prepare
  \/ SignInput
  \/ VerifyInput
  \/ PrintHalfSigned
  \/ Unlock
  \/ Send

\* handleUtil: one run of the program is one recovery command, a
\* cross-chain one or a SafeHD one
InitRecovery == InitTx \/ InitSafeHD

NextRecovery == NextTx \/ NextSafeHD

SpecRecovery == InitRecovery /\ [][NextRecovery]_vars

\* the calls made so far are sign 0, verify 0, sign 1, verify 1, ...
SignVerifyAlternate ==
  \A k \in 1 .. Len(hops) :
    hops[k] = IF k % 2 = 1 THEN <<"sign", (k - 1) \div 2>>
              ELSE <<"verify", (k \div 2) - 1>>

SubmittedWitness ==
  /\ nIns = 3 /\ submitted # <<>> /\ verified = {0, 1, 2}

RecoveringBchFromBtc ==
  coins.source \in {"bch", "tbch"} /\ coins.recovery \in {"btc", "tbtc"}

\* C11: in a recovery of BCH sent to a BTC wallet, once buildInputs has run
\* on a list holding an unspent with a witness script (at any position),
\* it has aborted with the segwit error and the transaction has no output,
\* is not signed and not saved.
SegwitRejected ==
  (/\ RecoveringBchFromBtc
   /\ Ran("buildInputs")
   /\ \E i \in 1 .. Len(unspents[1]) : unspents[1][i].witnessScript) =>
    /\ terror = Failed("Segwit address")
    /\ recoveryTx.outs = <<>>
    /\ halfSigned = <<>>
    /\ savedFile = <<>>

\* the wallet the k-th setWallet of the run was to set, and whether that
\* setWallet threw before the wallet was assigned
WalletOf(k) == IF k = 1 THEN wallets.source ELSE wallets.dest
SetWalletStep(k) == IF k = 1 THEN "setWallet source" ELSE "setWallet dest"
LookupFailed(k) ==
  /\ Len(steps) = k + 1 /\ tpc = "failed" /\ ~WalletOf(k).set

\* the answer of the last lookup the k-th setWallet made
LastAnswer(k) == lookups[k].calls[Len(lookups[k].calls)].answer

\* the setWallet protocol with fallback on the v2 answers in statuses
WalletResolution(statuses) ==
  \A k \in 1 .. Len(lookups) :
    LET calls == lookups[k].calls IN
    /\ calls[1].api = "v2"
    /\ Len(calls) <= 2
    /\ Len(calls) = 2 <=>
         (calls[1].answer \in statuses /\ EndsWithBtc(lookups[k].coin))
    /\ Len(calls) = 2 => calls[2].api = "v1"
    /\ calls[1].answer \notin ({"ok"} \cup statuses) =>
         LookupFailed(k) /\ terror = Failed("api error")
    /\ WalletOf(k).set =>
         /\ LastAnswer(k) = "ok"
         /\ WalletOf(k).isV1 <=> Len(calls) = 2
    /\ (LastAnswer(k) = "404" \/ (Len(calls) = 1 /\ LastAnswer(k) \in statuses)) =>
         /\ LookupFailed(k)
         /\ terror = Failed("Cannot find wallet")
         /\ k = 2 => addressesDest = <<>>

\* C12 (as amended): setWallet tries the v2 lookup first; it tries the v1
\* lookup only when the v2 lookup answered 404 or 400 and the coin type
\* ends with 'btc', and tags a wallet so found isV1; any other v2 failure
\* propagates without a fallback; when no lookup finds the wallet it fails
\* with 'Cannot find wallet' and leaves wallet and addresses unset.
WalletResolutionProtocol == WalletResolution({"404", "400"})

\* the recovery wallet was found by the v1 lookup after the v2 lookup
\* answered 400
WalletResolutionWitness ==
  /\ Len(lookups) = 2
  /\ lookups[2].calls = <<[api |-> "v2", answer |-> "400"],
                          [api |-> "v1", answer |-> "ok"]>>
  /\ wallets.dest = [set |-> TRUE, isV1 |-> TRUE]
  /\ addressesDest # <<>>

\* C12 (as stated): the v1 lookup is attempted only when the v2 lookup
\* answered 404; any other v2 failure propagates without a fallback.
WalletResolution404Only == WalletResolution({"404"})

\* the steps of a cross-chain recovery command, in the order of the handler
\* and of buildTransaction
StepOrder ==
  <<"construct", "setWallet source", "setWallet dest", "findUnspents",
    "buildInputs", "setFees", "buildOutputs", "signTransaction", "saveToFile">>

\* C13: the steps of a cross-chain recovery command run in the order wallet
\* resolution (source, then recovery), unspent discovery, input building,
\* fee setting, output building, signing; the file is written only after
\* all of them succeeded; after a failed step nothing more happens and no
\* file is written.
StrictStepOrder ==
  /\ [](/\ steps = SubSeq(StepOrder, 1, Len(steps))
        /\ (tpc = "failed") <=> (terror # NoError)
        /\ tpc = "failed" => savedFile = <<>>
        /\ savedFile # <<>> => (steps = StepOrder /\ terror = NoError))
  /\ [][tpc = "failed" => UNCHANGED txVars]_vars

\* the explorer request of findUnspents failed: the run stopped there
StrictStepOrderWitness ==
  /\ tpc = "failed"
  /\ terror = Failed("explorer error")
  /\ steps = SubSeq(StepOrder, 1, 4)
  /\ recoveryTx = [ins |-> <<>>, outs |-> <<>>]
  /\ savedFile = <<>>

(***************************************************************************)
(* handleSplitKeys (splitkeys)                                             *)
(***************************************************************************)
\* largest batch explored (the prompt announces 1..100000)
MaxKeys == 2
\* the largest n getIntVariable lets through
MaxShares == 10

\* what is given or typed for n and m: integers below, inside and above
\* the accepted range, a fraction and text
ShareTokens ==
  {Whole(v) : v \in 0 .. MaxN} \cup {Whole(MaxShares + 1), Half(1), Word}
\* what is given or typed for nkeys
KeyTokens == {Whole(v) : v \in -1 .. MaxKeys} \cup {Half(1), Word}

\* the mutant: the lower limit is not checked
GetIntVariableNoMin(tok, min, max) ==
  IF tok.kind # "int" THEN [err |-> "integer value required", value |-> 0]
  ELSE IF tok.v > max THEN [err |-> "value must be at most", value |-> 0]
  ELSE [err |-> "", value |-> tok.v]

\* getIntVariable(name, question, required, min, max) on the value tok:
\* parseInt(tok, 10) differs from tok unless tok is a whole number
GetIntVariable(tok, min, max) ==
  IF tok.kind # "int" THEN [err |-> "integer value required", value |-> 0]
  ELSE IF tok.v < min THEN [err |-> "value must be at least", value |-> 0]
  ELSE IF tok.v > max THEN [err |-> "value must be at most", value |-> 0]
  ELSE [err |-> "", value |-> tok.v]

\* _.range(0, nkeys): the indices the batch is generated for
Range(tok) ==
  IF tok.kind = "text" THEN <<>>
  ELSE IF tok.kind = "frac" THEN [k \in 1 .. tok.v + 1 |-> k - 1]
  ELSE IF tok.v >= 0 THEN [k \in 1 .. tok.v |-> k - 1]
  ELSE [k \in 1 .. -tok.v |-> 1 - k]

InitSplitKeys ==
  /\ IdleSend
  /\ IdleSplit
  /\ IdleRecover
  /\ IdleTx
  /\ IdleSafeHD
  /\ \E n, m \in ShareTokens \cup {Unset} : \E nkeys \in KeyTokens \cup {Unset} :
       /\ sinput = [n |-> n, m |-> m, nkeys |-> nkeys]
  /\ spw = <<>>
  /\ spc = "n"
  /\ rejected = NoRejection
  /\ jsonFile = <<>>
  /\ csvFile = <<>>

\* one round of getIntVariable for name: the value given, or else typed, is
\* accepted, or refused, deleted and asked for again
AskInt(name, typed, min, max, next) ==
  LET tok == IF sinput[name] # Unset THEN sinput[name] ELSE typed
      r == GetIntVariable(tok, min, max)
  IN  IF r.err # ""
      THEN /\ sinput' = [sinput EXCEPT ![name] = Unset]
           /\ rejected' = [name |-> name, value |-> tok]
           /\ UNCHANGED spc
      ELSE /\ sinput' = [sinput EXCEPT ![name] = Whole(r.value)]
           /\ spc' = next
           /\ UNCHANGED rejected

\* getIntVariable('n', ..., true, 1, 10)
GetN ==
  /\ spc = "n"
  /\ \E typed \in ShareTokens : AskInt("n", typed, 1, MaxShares, "m")
  /\ UNCHANGED <<splitVars, recVars, txVars, hdVars, sendVars, spw, jsonFile, csvFile>>

\* getIntVariable('m', ..., true, mMin, input.n)
GetM ==
  /\ spc = "m"
  /\ LET mMin == IF sinput.n.v = 1 THEN 1 ELSE 2 IN
       \E typed \in ShareTokens : AskInt("m", typed, mMin, sinput.n.v, "nkeys")
  /\ UNCHANGED <<splitVars, recVars, txVars, hdVars, sendVars, spw, jsonFile, csvFile>>

\* getVariable('nkeys', ..., true, 1, 100000): the fourth argument of
\* getVariable is a default value, and there is no fifth; the prompts for
\* the file prefix and the entropy follow
GetNKeys ==
  /\ spc = "nkeys"
  /\ \E typed \in KeyTokens :
       sinput' = [sinput EXCEPT !.nkeys =
                    IF sinput.nkeys # Unset THEN sinput.nkeys ELSE typed]
  /\ spc' = "passwords"
  /\ UNCHANGED <<splitVars, recVars, txVars, hdVars, sendVars, spw, rejected, jsonFile,
                 csvFile>>

\* the mutant: the first entry is stored whatever the confirmation is
GetSharePasswordUnconfirmed ==
  /\ spc = "passwords"
  /\ \E password \in {Len(spw) + 1, 1} :
     \E confirmation \in {password, WrongPassword} :
       /\ rejected' = IF confirmation # password
                      THEN [name |-> "password", value |-> Whole(Len(spw))]
                      ELSE rejected
       /\ spw' = Append(spw, password)
       /\ spc' = IF Len(spw) + 1 = sinput.n.v THEN "generate"
                 ELSE "passwords"
  /\ UNCHANGED <<splitVars, recVars, txVars, hdVars, sendVars, sinput, jsonFile, csvFile>>

\* getPassword(i, n) for the next share: the password typed (a new one, or
\* the one of share 0 again) and its confirmation
GetSharePassword ==
  /\ spc = "passwords"
  /\ \E password \in {Len(spw) + 1, 1} :
     \E confirmation \in {password, WrongPassword} :
       IF confirmation # password
       THEN /\ rejected' = [name |-> "password", value |-> Whole(Len(spw))]
            /\ UNCHANGED <<spw, spc>>
       ELSE /\ spw' = Append(spw, password)
            /\ spc' = IF Len(spw) + 1 = sinput.n.v THEN "generate"
                      ELSE "passwords"
            /\ UNCHANGED rejected
  /\ UNCHANGED <<splitVars, recVars, txVars, hdVars, sendVars, sinput, jsonFile, csvFile>>

\* the batch: genSplitKey for every index of the range, then the two files
GenerateKeys ==
  /\ spc = "generate"
  /\ LET indices == Range(sinput.nkeys) IN
     \E s \in [1 .. Len(indices) -> RecSeeds] : \E c \in RecCoeffs :
       LET keys == [k \in 1 .. Len(indices) |->
                      FileRecord(indices[k], <<sinput.m.v, sinput.n.v>>, spw,
                                 s[k], c)]
       IN  /\ jsonFile' = <<keys>>
           /\ csvFile' = <<[k \in 1 .. Len(keys) |->
                              <<keys[k].index, keys[k].xpub>>]>>
  /\ spc' = "done"
  /\ UNCHANGED <<splitVars, recVars, txVars, hdVars, sendVars, sinput, spw, rejected>>

NextSplitKeys ==
  \/ GetN
  \/ GetM
  \/ GetNKeys
  \/ GetSharePassword
  \/ GenerateKeys

SpecSplitKeys == InitSplitKeys /\ [][NextSplitKeys]_vars

\* the (m, n) of a record or of the input is one splitkeys allows
ValidSplit(m, n) ==
  /\ 1 <= m /\ m <= n /\ n <= MaxShares
  /\ n = 1 => m = 1
  /\ n > 1 => m >= 2

\* C14: every record splitkeys writes has 1 <= m <= n <= 10, m = 1 when
\* n = 1 and m >= 2 when n > 1; the handler gets past the prompt of n, and
\* of m, only with a whole number in range, whether given on the command
\* line or typed.
ValidSplitParams ==
  /\ spc \notin {"idle", "n"} =>
       sinput.n.kind = "int" /\ sinput.n.v \in 1 .. MaxShares
  /\ spc \notin {"idle", "n", "m"} =>
       sinput.m.kind = "int" /\ ValidSplit(sinput.m.v, sinput.n.v)
  /\ jsonFile # <<>> =>
       \A k \in 1 .. Len(jsonFile[1]) :
         ValidSplit(jsonFile[1][k].m, jsonFile[1][k].n)

\* m = 1 was refused for n = 3, and the batch was written with m = 2
ValidSplitParamsWitness ==
  /\ jsonFile # <<>>
  /\ Len(jsonFile[1]) = 2
  /\ jsonFile[1][1].n = 3 /\ jsonFile[1][1].m = 2
  /\ rejected = [name |-> "m", value |-> Whole(1)]

\* the upper limit the prompt of nkeys announces
MaxBatch == 100000

\* C15: splitkeys gets to key generation only with nkeys a whole number in
\* 1..100000, and the file then holds nkeys records with the indices
\* 0..nkeys-1.
BatchSizeValidated ==
  /\ spc \in {"generate", "done"} =>
       sinput.nkeys.kind = "int" /\ sinput.nkeys.v \in 1 .. MaxBatch
  /\ jsonFile # <<>> =>
       /\ Len(jsonFile[1]) = sinput.nkeys.v
       /\ \A k \in 1 .. Len(jsonFile[1]) : jsonFile[1][k].index = k - 1

\* C16: in every record splitkeys writes, no two shares are encrypted with
\* the same password.
DistinctSharePasswords ==
  jsonFile # <<>> =>
    \A k \in 1 .. Len(jsonFile[1]) :
      \A i, j \in 1 .. jsonFile[1][k].n :
        i # j => jsonFile[1][k].seedShares[i].pw # jsonFile[1][k].seedShares[j].pw

(***************************************************************************)
(* What the key commands show and store                                    *)
(***************************************************************************)
\* C19: in verification mode every entry of the printed result holds an
\* index and an xpub and nothing else: no xprv and no seed.
VerifyOnlyNoXprv ==
  (verifyonly /\ output # <<>>) =>
    \A i \in 1 .. Len(output[1]) :
      /\ DOMAIN output[1][i] = {"index", "xpub", "xprv"}
      /\ output[1][i].xprv = Undefined
      /\ output[1][i].xpub # Undefined
      /\ output[1][i].xpub[1] = "xpub"

\* verifysplitkeys listed both keys of the file
VerifyOnlyNoXprvWitness ==
  /\ verifyonly /\ rpc = "done" /\ output # <<>>
  /\ Len(output[1]) = 2
  /\ XpubMatch(keysToRecover[1]) /\ XpubMatch(keysToRecover[2])
  /\ output[1][1].xprv = Undefined /\ output[1][2].xprv = Undefined

\* x is what bitgo.encrypt returned, not a seed or a share
IsCiphertext(x) == DOMAIN x = {"pw", "pt"}

\* C20: the two files splitkeys writes hold, for each key, the index, the
\* xpub, m, n and the encrypted shares, and index and xpub, and nothing
\* else: no seed, no xprv, no password and no share that is not encrypted
\* (the single share of an n = 1 key, which is the seed, included).
NoClearTextPersisted ==
  (jsonFile # <<>> \/ csvFile # <<>>) =>
    /\ jsonFile # <<>> /\ csvFile # <<>>
    /\ \A k \in 1 .. Len(jsonFile[1]) :
         LET r == jsonFile[1][k] IN
         /\ DOMAIN r = {"index", "xpub", "m", "n", "seedShares"}
         /\ r.xpub[1] = "xpub"
         /\ Len(r.seedShares) = r.n
         /\ \A i \in 1 .. r.n : IsCiphertext(r.seedShares[i])
    /\ Len(csvFile[1]) = Len(jsonFile[1])
    /\ \A k \in 1 .. Len(csvFile[1]) :
         csvFile[1][k] = <<jsonFile[1][k].index, jsonFile[1][k].xpub>>

\* a batch of two n = 1 keys: the only share of each is its seed, encrypted
NoClearTextPersistedWitness ==
  /\ jsonFile # <<>> /\ csvFile # <<>>
  /\ Len(jsonFile[1]) = 2
  /\ jsonFile[1][1].n = 1
  /\ IsCiphertext(jsonFile[1][1].seedShares[1])
  /\ jsonFile[1][1].seedShares[1].pt.kind = "seed"

(***************************************************************************)
(* handleSendToAddress and retryForUnlock                                  *)
(***************************************************************************)
\* the API operations of a command, in the order it makes them
SendOps ==
  [sendtoaddress |-> <<"createTransaction", "sendMany">>,
   retryForUnlock |-> <<"func">>]

\* how an API operation can answer
CallOutcomes == {"ok", "needsOTP", "error"}

\* how handleUnlock can end
UnlockOutcomes ==
  {"ok", "unlock failed"}
    \cup (IF longLived THEN {"cancelling method call"} ELSE {})
    \cup (IF otpGiven THEN {} ELSE {"sendOTP failed"})

InitSend ==
  /\ IdleSplit
  /\ IdleSplitKeys
  /\ IdleRecover
  /\ IdleTx
  /\ IdleSafeHD
  /\ sendCmd \in DOMAIN SendOps
  /\ otpGiven \in BOOLEAN
  /\ longLived \in BOOLEAN
  /\ sop = ""
  /\ sphase = "prepare"
  /\ slog = <<>>
  /\ serror = ""

SendFail(err) == sphase' = "failed" /\ serror' = err /\ UNCHANGED sop

\* the operation at hand has succeeded: on to the confirmation, or done
Proceed ==
  /\ UNCHANGED <<serror, sop>>
  /\ sphase' = IF sop = "createTransaction" THEN "confirm" ELSE "done"

\* the command up to its first API operation: ensureWallet and the
\* destination and amount checks of handleSendToAddress
PrepareSend ==
  /\ sphase = "prepare"
  /\ \/ /\ sendCmd = "sendtoaddress"
        /\ \E err \in {"No current wallet", "Invalid destination address",
                       "Invalid amount (non-numeric)"} : SendFail(err)
     \/ /\ sop' = SendOps[sendCmd][1]
        /\ sphase' = "attempt"
        /\ UNCHANGED serror
  /\ UNCHANGED <<splitVars, skVars, recVars, txVars, hdVars, sendCmd, otpGiven,
                 longLived, slog>>

\* the first call of the operation, and the catch that follows it
Attempt ==
  /\ sphase = "attempt"
  /\ \E outcome \in CallOutcomes :
       /\ slog' = Append(slog, [op |-> sop, kind |-> "call", outcome |-> outcome])
       /\ IF outcome = "ok" THEN Proceed
          ELSE IF outcome = "needsOTP"
          THEN sphase' = "unlock" /\ UNCHANGED <<serror, sop>>
          ELSE SendFail(outcome)
  /\ UNCHANGED <<splitVars, skVars, recVars, txVars, hdVars, sendCmd, otpGiven,
                 longLived>>

\* handleUnlock(params)
HandleUnlock ==
  /\ sphase = "unlock"
  /\ \E outcome \in UnlockOutcomes :
       /\ slog' = Append(slog, [op |-> sop, kind |-> "unlock", outcome |-> outcome])
       /\ IF outcome = "ok" THEN sphase' = "retry" /\ UNCHANGED <<serror, sop>>
          ELSE SendFail(outcome)
  /\ UNCHANGED <<splitVars, skVars, recVars, txVars, hdVars, sendCmd, otpGiven,
                 longLived>>

\* the mutant: the catch is applied to the second call as well
RetryAgain ==
  /\ sphase = "retry"
  /\ \E outcome \in CallOutcomes :
       /\ slog' = Append(slog, [op |-> sop, kind |-> "call", outcome |-> outcome])
       /\ IF outcome = "ok" THEN Proceed
          ELSE IF outcome = "needsOTP"
          THEN sphase' = "unlock" /\ UNCHANGED <<serror, sop>>
          ELSE SendFail(outcome)
  /\ UNCHANGED <<splitVars, skVars, recVars, txVars, hdVars, sendCmd, otpGiven,
                 longLived>>

\* the second call of the operation, made in the then of handleUnlock:
\* whatever it fails with propagates
Retry ==
  /\ sphase = "retry"
  /\ \E outcome \in CallOutcomes :
       /\ slog' = Append(slog, [op |-> sop, kind |-> "call", outcome |-> outcome])
       /\ IF outcome = "ok" THEN Proceed ELSE SendFail(outcome)
  /\ UNCHANGED <<splitVars, skVars, recVars, txVars, hdVars, sendCmd, otpGiven,
                 longLived>>

\* the 'go' prompt between createTransaction and sendMany
ConfirmSend ==
  /\ sphase = "confirm"
  /\ \/ SendFail("Transaction canceled")
     \/ /\ sop' = "sendMany"
        /\ sphase' = "attempt"
        /\ UNCHANGED serror
  /\ UNCHANGED <<splitVars, skVars, recVars, txVars, hdVars, sendCmd, otpGiven,
                 longLived, slog>>

NextSend ==
  \/ PrepareSend
  \/ Attempt
  \/ HandleUnlock
  \/ Retry
  \/ ConfirmSend

SpecSend == InitSend /\ [][NextSend]_vars

\* the events of slog that belong to operation op
EventsOf(op) ==
  LET OfOp(e) == e.op = op IN SelectSeq(slog, OfOp)

\* event e ends the command: a failed unlock, a first call that failed
\* with something else than needsOTP, or a second call that failed
Fatal(e, first) ==
  \/ e.kind = "unlock" /\ e.outcome # "ok"
  \/ e.kind = "call" /\ e.outcome = "error"
  \/ e.kind = "call" /\ e.outcome = "needsOTP" /\ ~first

\* C17: an API operation is called at most twice; the second call is made
\* only after the first failed with needsOTP and the unlock that followed
\* succeeded; a first failure that is not needsOTP, a failed unlock and a
\* failure of the second call each end the command with that error,
\* nothing being called after it.
OtpRetryOnce ==
  /\ \A op \in {"createTransaction", "sendMany", "func"} :
       LET ev == EventsOf(op) IN
       /\ Len(ev) <= 3
       /\ Len(ev) >= 1 => ev[1].kind = "call"
       /\ Len(ev) >= 2 => ev[1].outcome = "needsOTP" /\ ev[2].kind = "unlock"
       /\ Len(ev) = 3 => ev[2].outcome = "ok" /\ ev[3].kind = "call"
       /\ \A k \in 1 .. Len(ev) :
            Fatal(ev[k], k = 1) =>
              /\ k = Len(ev)
              /\ slog[Len(slog)] = ev[k]
              /\ sphase = "failed"
              /\ serror = ev[k].outcome

\* sendMany asked for an OTP, the session was unlocked, and the second
\* sendMany failed with needsOTP again: the command ended there
OtpRetryOnceWitness ==
  /\ sendCmd = "sendtoaddress"
  /\ EventsOf("sendMany") =
       <<[op |-> "sendMany", kind |-> "call", outcome |-> "needsOTP"],
         [op |-> "sendMany", kind |-> "unlock", outcome |-> "ok"],
         [op |-> "sendMany", kind |-> "call", outcome |-> "needsOTP"]>>
  /\ sphase = "failed"
  /\ serror = "needsOTP"


\* ---------------------------------------------------------------------
\* C18: the util command recoverltc works end to end: its recovery tool is
\* constructed and the run goes on to the wallet lookups (and from there
\* to the build, the half-signature and the recovery file); it never ends
\* in the constructor, before any wallet lookup.
LitecoinPastConstructor ==
  command = "recoverltc" =>
    ~(tpc = "failed" /\ steps = <<"construct">> /\ lookups = <<>>)


\* ---------------------------------------------------------------------
\* getPassword of handleRecoverKeys has been called
Collecting == rpc \in {"passwords", "recombine", "done"} /\ keysToRecover # <<>>

\* C21: during password collection every accepted password adds exactly
\* one shareIndex -> password binding (as many bindings as accepted
\* passwords), the bound share indices are pairwise different, and when
\* collection is complete the number of bindings is the m of the first
\* selected key.
OneBindingPerPassword ==
  Collecting =>
    /\ Len(passwords) = slot
    /\ \A i, j \in 1 .. Len(passwords) :
         passwords[i].shareIndex = passwords[j].shareIndex => i = j
    /\ rpc # "passwords" => Len(passwords) = keysToRecover[1].m


\* ---------------------------------------------------------------------
\* C22: a password that binds no share of the first key (a wrong one, or
\* one whose shares are all bound already) is rejected: the bindings, the
\* slot number and the error stay as they were, the slot holds no value,
\* the same slot is asked again and the command goes on; a password is
\* accepted only when it added a binding.
WrongPasswordChangesNothing ==
  [][rpc = "passwords" =>
       /\ ~found' =>
            /\ UNCHANGED <<passwords, slot, inputPw, rerror, output>>
            /\ Len(inputPw') = slot'
            /\ rpc' = "passwords"
       /\ found' =>
            /\ Len(passwords') > Len(passwords)
            /\ slot' = slot + 1]_vars

\* a password was rejected at slot 1, after one was accepted at slot 0
WrongPasswordRejectedWitness ==
  /\ rpc = "passwords"
  /\ ~found
  /\ slot = 1
  /\ Len(passwords) >= 1
  /\ Len(inputPw) = 1
  /\ rerror = NoError


\* ---------------------------------------------------------------------
\* handleRecoverKeys with an operator who goes on answering the password
\* prompt: a password that would be accepted is eventually entered
SpecRecoverFair == SpecRecover /\ WF_vars(EnterPassword)

\* C23: password collection terminates: once the passwords are asked for,
\* m of them are eventually accepted and recombination starts, for every
\* assignment of passwords to shares splitkeys can produce.
PasswordCollectionTerminates == (rpc = "passwords") ~> (rpc = "recombine")


\* ---------------------------------------------------------------------
\* entry tok of the key list is an index of a record of the file
ValidIndex(tok) == ~tok.nan /\ tok.v >= 0 /\ tok.v < Len(keysFile)

\* C24: the key list is validated before every side effect: a list with
\* no entry, or with an entry that is not a valid index of the file, is
\* rejected before any password is asked for and before any share is
\* decrypted.
IndexValidationFirst ==
  (rpc \notin {"command", "keys"}
   /\ \E k \in 1 .. Len(keysArg) : ~ValidIndex(keysArg[k])) =>
     /\ rpc = "failed"
     /\ keysToRecover = <<>>
     /\ passwords = <<>>
     /\ slot = 0
     /\ output = <<>>


\* ---------------------------------------------------------------------
\* rebuilding key k from the bindings fails: a share does not decrypt, or
\* (xprv shown) the regenerated xpub is not the stored one
KeyFails(k) ==
  \/ RecoveredSeed(k, passwords) = Throw
  \/ ~verifyonly /\ XpubMismatch(k)

\* C25: the output of handleRecoverKeys is all or nothing: what is printed
\* is one list with an entry for every selected key, printed after all of
\* them were rebuilt and checked; if one selected key fails nothing is
\* printed, the keys that passed before it included.
AllOrNothing ==
  Recombined =>
    /\ (\E i \in 1 .. Len(keysToRecover) : KeyFails(keysToRecover[i])) =>
         rpc = "failed" /\ output = <<>>
    /\ output # <<>> =>
         /\ rpc = "done"
         /\ Len(output) = 1
         /\ Len(output[1]) = Len(keysToRecover)
         /\ \A i \in 1 .. Len(keysToRecover) :
              /\ ~KeyFails(keysToRecover[i])
              /\ output[1][i].index = keysToRecover[i].index

\* two keys selected: key 0 is rebuilt, a share of key 1 does not decrypt
\* with the bound passwords, and nothing is printed
AllOrNothingWitness ==
  /\ Recombined
  /\ Len(keysToRecover) = 2
  /\ ~KeyFails(keysToRecover[1])
  /\ RecoveredSeed(keysToRecover[2], passwords) = Throw
  /\ rpc = "failed"
  /\ rerror.kind = "decrypt"
  /\ output = <<>>


\* ---------------------------------------------------------------------
\* C26: at split time the password of share i is stored only when its
\* confirmation equals it; a mismatch stores nothing and asks for share i
\* again, the command going on, so that intake ends with n stored
\* passwords, one for each share index 0 .. n-1.
ConfirmedPasswordsOnly ==
  /\ [](/\ spc = "passwords" => Len(spw) < sinput.n.v
        /\ spc \in {"generate", "done"} => Len(spw) = sinput.n.v)
  /\ [][spc = "passwords" =>
          /\ rejected' # rejected =>
               /\ rejected' = [name |-> "password", value |-> Whole(Len(spw))]
               /\ spw' = spw
               /\ spc' = "passwords"
          /\ rejected' = rejected =>
               /\ Len(spw') = Len(spw) + 1
               /\ SubSeq(spw', 1, Len(spw)) = spw
               /\ spc' \in {"passwords", "generate"}]_vars

\* the confirmation of share 1 did not match once; intake still ended
\* with the passwords of shares 0 and 1
ConfirmedPasswordsWitness ==
  /\ spc = "generate"
  /\ sinput.n = Whole(2)
  /\ rejected = [name |-> "password", value |-> Whole(1)]
  /\ Len(spw) = 2


\* ---------------------------------------------------------------------
\* C27: a signing key is resolved before signing: a transaction that
\* came back from the signer was signed with a private key present, for a
\* v1 and for a v2 recovery wallet, and when no key can be obtained
\* signTransaction stops without a signed transaction.
SigningKeyResolved ==
  /\ halfSigned # <<>> => halfSigned[1].prv
  /\ (tpc = "failed" /\ steps[Len(steps)] = "signTransaction"
        /\ terror # Failed("signing error")) => halfSigned = <<>>


\* ---------------------------------------------------------------------
\* the explorer found no unspent on the addresses it was asked about
NoUnspents == unspents = <<<<>>>>

\* C28: no unspent found is not an error of the discovery: findUnspents
\* and buildInputs complete with no input and inputAmount 0, setFees
\* follows, and the run stops in buildOutputs with 'cannot pay its own
\* fees'; nothing is signed or saved.
ZeroUnspentsRejectedDownstream ==
  NoUnspents =>
    /\ tpc \in {"buildInputs", "setFees", "buildOutputs", "failed"}
    /\ tpc \in {"setFees", "buildOutputs", "failed"} =>
         /\ recoveryTx.ins = <<>>
         /\ txInfo # <<>>
         /\ txInfo[1].inputs = <<>>
         /\ txInfo[1].inputAmount = 0
    /\ tpc = "failed" =>
         /\ steps[Len(steps)] = "buildOutputs"
         /\ terror = Failed("cannot pay its own fees")
         /\ recoveryTx.outs = <<>>
    /\ halfSigned = <<>>
    /\ savedFile = <<>>

\* the faulty transaction has no output on an address of the wallet, the
\* explorer answers with no unspent, and the run has stopped in buildOutputs
ZeroUnspentsWitness ==
  /\ NoUnspents
  /\ faultyTxInfo = <<<<"unlisted">>>>
  /\ outputAddresses = <<<<>>>>
  /\ tpc = "failed"
  /\ steps[Len(steps)] = "buildOutputs"
  /\ txInfo[1].inputAmount = 0
  /\ txInfo[1].minerFee > 0


\* ---------------------------------------------------------------------
\* C29: every address findUnspents asks the explorer the unspents of is an
\* output address of the faulty transaction and an address of the
\* recovery wallet; no other address is asked about.
QueriesOwnAddressesOnly ==
  outputAddresses # <<>> =>
    \A k \in 1 .. Len(outputAddresses[1]) :
      /\ outputAddresses[1][k] \in addressesDest[1]
      /\ \E j \in 1 .. Len(faultyTxInfo[1]) :
           faultyTxInfo[1][j] = outputAddresses[1][k]

\* a faulty transaction with two outputs on the wallet and one elsewhere:
\* the two are asked about, the third is not
QueriesOwnAddressesWitness ==
  /\ faultyTxInfo = <<<<"known", "unlisted", "known">>>>
  /\ outputAddresses = <<<<"known", "known">>>>
  /\ "unlisted" \notin addressesDest[1]
  /\ tpc = "buildInputs"


\* ---------------------------------------------------------------------
\* the fee rate per byte of a source chain
RatePerByte(sourceType) == IF sourceType \in {"bch", "tbch"} THEN 20 ELSE 80

\* C30: setFees sets txInfo.minerFee to the fee rate of the source chain
\* (20 for bch and tbch, 80 for btc and tbtc) times 295 * inputs + 34 + 10,
\* whatever the number of inputs, and returns the value it stores.
FeeFormula ==
  /\ tpc = "buildOutputs" =>
       txInfo[1].minerFee =
         RatePerByte(coins.source) * (295 * Len(recoveryTx.ins) + 34 + 10)
  /\ (tpc = "setFees" /\ txInfo # <<>>) =>
       LET r == SetFeesCall(txInfo[1], coins.source, recoveryTx) IN
       /\ r.returned = r.txInfo.minerFee
       /\ r.returned =
            RatePerByte(coins.source) * (295 * Len(recoveryTx.ins) + 34 + 10)

\* setFees has run on a tbtc transaction of two inputs: 80 * 634
FeeFormulaWitness ==
  /\ tpc = "buildOutputs"
  /\ coins.source = "tbtc"
  /\ Len(recoveryTx.ins) = 2
  /\ txInfo[1].minerFee = 50720

====
